---- MODULE Spec2Model ----
(***************************************************************************)
(* A model of fileglancer-central: the /files proxy dispatcher with its    *)
(* privilege context (app.py, usercontext.py) and the file-share-path      *)
(* synchronizer (app.py, database.py).                                     *)
(*                                                                         *)
(* Python strings are modelled as tuples of one-character strings, so that *)
(* path composition, basename, slugify and comparison are computed, not    *)
(* assumed.                                                                *)
(***************************************************************************)
EXTENDS Integers, Sequences, FiniteSets, TLC

\* ------------------------------------------------------------------------
\* Bounds of the model
\* ------------------------------------------------------------------------

\* Rows of a table given to update_file_share_paths.
MaxRows == 3

\* Rows of the external table in the model of _cache_wiki_paths.
MaxWikiRows == 2

\* The clock runs from 0 to MaxTime ticks.
MaxTime == 3

\* Edits of the external table.
MaxEdits == 1

VARIABLES
    settings,           \* Settings: use_access_flags, file_share_mounts
    proxied_paths,      \* table proxied_paths: sharing key -> row
    file_share_paths,   \* table file_share_paths: set of rows
    last_refresh,       \* table last_refresh: set of rows
    fsp_cache,          \* memo of the @cache'd _get_fsp_names_to_mount_paths
    proc,               \* credentials of the process
    requests,           \* the /files handlers in flight
    last,               \* the /files request the latest step answered, if any
    now,                \* datetime.now()
    wiki,               \* the external table, its last-modified time, its version
    syncers,            \* the _cache_wiki_paths calls in flight
    sync_log,           \* the last two _cache_wiki_paths calls that went to fetch
    last_pass,          \* the update_file_share_paths call that ran last
    session,            \* the transaction of the update_file_share_paths call in progress
    observed,           \* what the latest reader of the store saw
    uctx,               \* the UserContext of usercontext.main() and its system calls
    reg_last,           \* the latest operation on the proxied-path registry
    user_preferences,   \* table user_preferences: set of rows
    pref_log,           \* what was written to the preference store, and the latest call
    postgresql,         \* the target database of the migration script
    migration           \* the run of the migration script (migrate.py main)

vars == <<settings, proxied_paths, file_share_paths, last_refresh, fsp_cache,
          proc, requests, last, now, wiki, syncers, sync_log, last_pass,
          session, observed, uctx, reg_last, user_preferences, pref_log,
          postgresql, migration>>

\* The state of the parts added to the model last.
side_vars == <<session, observed, uctx, reg_last, user_preferences, pref_log,
               postgresql, migration>>

\* ------------------------------------------------------------------------
\* Strings and paths
\* ------------------------------------------------------------------------

RECURSIVE SplitFrom(_, _, _)
\* str.split('/'): acc holds the finished segments, cur the running one.
SplitFrom(s, acc, cur) ==
    IF s = <<>> THEN Append(acc, cur)
    ELSE IF Head(s) = "/" THEN SplitFrom(Tail(s), Append(acc, cur), <<>>)
    ELSE SplitFrom(Tail(s), acc, Append(cur, Head(s)))

Split(s) == SplitFrom(s, <<>>, <<>>)

\* os.path.basename: everything after the last slash.
Basename(s) == Split(s)[Len(Split(s))]

RECURSIVE NormSegs(_, _)
\* Resolution of an absolute path by the filesystem: empty and "." segments
\* are skipped, ".." removes the last segment (the root is its own parent).
NormSegs(segs, acc) ==
    IF segs = <<>> THEN acc
    ELSE LET h == Head(segs) IN
         IF h = <<>> \/ h = <<".">> THEN NormSegs(Tail(segs), acc)
         ELSE IF h = <<".", ".">>
              THEN NormSegs(Tail(segs),
                            IF acc = <<>> THEN acc ELSE SubSeq(acc, 1, Len(acc) - 1))
              ELSE NormSegs(Tail(segs), Append(acc, h))

Normalize(s) == NormSegs(Split(s), <<>>)

IsPrefix(a, b) == Len(a) <= Len(b) /\ SubSeq(b, 1, Len(a)) = a

\* The location a path names lies inside (or is) the tree under root.
Inside(root, s) == IsPrefix(Normalize(root), Normalize(s))

\* f"{a}/{b}"
JoinPath(a, b) == a \o <<"/">> \o b

\* ------------------------------------------------------------------------
\* The user directory and the process credentials (pwd, os.set*id)
\* ------------------------------------------------------------------------

\* pwd.getpwnam / os.getgrouplist for the accounts that exist; "ghost" owns
\* shares but has no account.
Passwd ==
    [alice |-> [uid |-> 1001, gid |-> 101, gids |-> {101, 200}],
     bob   |-> [uid |-> 1002, gid |-> 102, gids |-> {102, 200}]]

KnownUsers == {"alice", "bob"}
Usernames == KnownUsers \cup {"ghost"}

\* Credentials of the service at start: it runs as root, real and effective
\* ids equal.
RootProc == [ruid |-> 0, rgid |-> 0, euid |-> 0, egid |-> 0, groups |-> {0}]

\* os.setegid(g): allowed for a privileged process, else only to the real
\* (= saved) or current effective gid.
Setegid(p, g) ==
    IF p.euid = 0 \/ g \in {p.rgid, p.egid}
    THEN [ok |-> TRUE, proc |-> [p EXCEPT !.egid = g]]
    ELSE [ok |-> FALSE, proc |-> p]

\* os.setgroups(gids): needs privilege (effective uid 0).
Setgroups(p, gids) ==
    IF p.euid = 0
    THEN [ok |-> TRUE, proc |-> [p EXCEPT !.groups = gids]]
    ELSE [ok |-> FALSE, proc |-> p]

\* os.seteuid(u): allowed for a privileged process, else only to the real
\* (= saved) or current effective uid.
Seteuid(p, u) ==
    IF p.euid = 0 \/ u \in {p.ruid, p.euid}
    THEN [ok |-> TRUE, proc |-> [p EXCEPT !.euid = u]]
    ELSE [ok |-> FALSE, proc |-> p]

\* ------------------------------------------------------------------------
\* UserContext (the privilege context) and the no-op ProxyContext
\* ------------------------------------------------------------------------

\* UserContext.__init__: the ids to restore are the REAL ids at construction.
UserContextInit(username, p) ==
    [kind |-> "AccessFlags", username |-> username, _uid |-> p.ruid, _gid |-> p.rgid]

\* ProxyContext, the context that changes nothing.
NoOpContext == [kind |-> "NoOp", username |-> "", _uid |-> 0, _gid |-> 0]

\* What can refuse a system call of __enter__ for a reason outside the
\* credentials of the process (a security module, a sandbox): nothing, or
\* the named call.
Faults == {"none", "setegid", "setgroups", "seteuid"}

\* A system call made, with the effective ids after it.
Called(name, r) == [name |-> name, ok |-> r.ok, euid |-> r.proc.euid, egid |-> r.proc.egid]

\* A system call under a fault: the refused call changes nothing.
Refused(p) == [ok |-> FALSE, proc |-> p]

\* Mutant: the user id is narrowed first, the groups after it.
__enter__uidfirst(ctx, p, fault) ==
    IF ctx.username \notin DOMAIN Passwd THEN [ok |-> FALSE, proc |-> p, calls |-> <<>>]
    ELSE
      LET user == Passwd[ctx.username]
          s1 == IF fault = "seteuid" THEN Refused(p) ELSE Seteuid(p, user.uid)
          s2 == IF fault = "setegid" THEN Refused(s1.proc) ELSE Setegid(s1.proc, user.gid)
          s3 == IF fault = "setgroups" THEN Refused(s2.proc) ELSE Setgroups(s2.proc, user.gids)
      IN  IF ~s1.ok
          THEN [ok |-> FALSE, proc |-> p, calls |-> <<Called("seteuid", s1)>>]
          ELSE IF ~s2.ok
          THEN [ok |-> FALSE, proc |-> s2.proc,
                calls |-> <<Called("seteuid", s1), Called("setegid", s2)>>]
          ELSE [ok |-> s3.ok, proc |-> s3.proc,
                calls |-> <<Called("seteuid", s1), Called("setegid", s2),
                            Called("setgroups", s3)>>]

\* UserContext.__enter__ of the context ctx in a process with credentials p:
\* ok = FALSE when it raises; calls lists the system calls made, in order.
__enter__(ctx, p, fault) ==
    IF ctx.username \notin DOMAIN Passwd THEN [ok |-> FALSE, proc |-> p, calls |-> <<>>]
    ELSE
      LET user == Passwd[ctx.username]
          s1 == IF fault = "setegid" THEN Refused(p) ELSE Setegid(p, user.gid)
          s2 == IF fault = "setgroups" THEN Refused(s1.proc) ELSE Setgroups(s1.proc, user.gids)
          s3 == IF fault = "seteuid" THEN Refused(s2.proc) ELSE Seteuid(s2.proc, user.uid)
          r2 == Setegid(s2.proc, ctx._gid)
          r3 == Setegid(s3.proc, ctx._gid)
      IN  IF ~s1.ok
          THEN [ok |-> FALSE, proc |-> p, calls |-> <<Called("setegid", s1)>>]
          ELSE IF ~s2.ok
          THEN [ok |-> FALSE, proc |-> r2.proc,
                calls |-> <<Called("setegid", s1), Called("setgroups", s2),
                            Called("setegid", r2)>>]
          ELSE IF ~s3.ok
          THEN [ok |-> FALSE, proc |-> r3.proc,
                calls |-> <<Called("setegid", s1), Called("setgroups", s2),
                            Called("seteuid", s3), Called("setegid", r3)>>]
          ELSE [ok |-> TRUE, proc |-> s3.proc,
                calls |-> <<Called("setegid", s1), Called("setgroups", s2),
                            Called("seteuid", s3)>>]

\* The __enter__ of the context of a request: that of UserContext, or
\* nothing for the context that changes nothing.
CtxEnter(ctx, p) ==
    IF ctx.kind = "NoOp" THEN [ok |-> TRUE, proc |-> p]
    ELSE LET e == __enter__(ctx, p, "none") IN [ok |-> e.ok, proc |-> e.proc]

\* Mutant: __exit__ restores the user id only.
CtxExit_uidonly(ctx, p) ==
    IF ctx.kind = "NoOp" THEN [ok |-> TRUE, proc |-> p]
    ELSE LET s1 == Seteuid(p, ctx._uid)
         IN  [ok |-> s1.ok, proc |-> s1.proc]

\* UserContext.__exit__: seteuid then setegid; ok = FALSE when it raises.
CtxExit(ctx, p) ==
    IF ctx.kind = "NoOp" THEN [ok |-> TRUE, proc |-> p]
    ELSE
      LET s1 == Seteuid(p, ctx._uid)
          s2 == Setegid(s1.proc, ctx._gid)
      IN  IF ~s1.ok THEN [ok |-> FALSE, proc |-> p]
          ELSE IF ~s2.ok THEN [ok |-> FALSE, proc |-> s1.proc]
          ELSE [ok |-> TRUE, proc |-> s2.proc]

\* ------------------------------------------------------------------------
\* The path metadata store (database.py)
\* ------------------------------------------------------------------------

\* The characters matched by [a-zA-Z0-9].
Alnum ==
    {"a","b","c","d","e","f","g","h","i","j","k","l","m","n","o","p","q","r",
     "s","t","u","v","w","x","y","z",
     "A","B","C","D","E","F","G","H","I","J","K","L","M","N","O","P","Q","R",
     "S","T","U","V","W","X","Y","Z",
     "0","1","2","3","4","5","6","7","8","9"}

RECURSIVE ReplaceSpecial(_)
\* re.sub(r'[^a-zA-Z0-9]', '_', s)
ReplaceSpecial(s) ==
    IF s = <<>> THEN <<>>
    ELSE <<IF Head(s) \in Alnum THEN Head(s) ELSE "_">> \o ReplaceSpecial(Tail(s))

RECURSIVE CollapseUnderscores(_)
\* re.sub(r'_+', '_', s)
CollapseUnderscores(s) ==
    IF Len(s) < 2 THEN s
    ELSE IF s[1] = "_" /\ s[2] = "_" THEN CollapseUnderscores(Tail(s))
    ELSE <<Head(s)>> \o CollapseUnderscores(Tail(s))

RECURSIVE LStripUnderscores(_)
\* s.lstrip('_')
LStripUnderscores(s) ==
    IF s # <<>> /\ Head(s) = "_" THEN LStripUnderscores(Tail(s)) ELSE s

\* slugify_path
slugify_path(s) == LStripUnderscores(CollapseUnderscores(ReplaceSpecial(s)))

\* max_paths_to_delete, the default of update_file_share_paths.
MaxPathsToDelete == 2

\* Mutant: the lab column of the table is not copied.
RowToRecord_nolab(row) ==
    [name |-> slugify_path(row.linux_path), zone |-> "",
     mount_path |-> row.linux_path, linux_path |-> row.linux_path]

\* A FileSharePathDB row built from a table row. The columns group, storage,
\* mac_path and windows_path are copied exactly like lab -> zone and are
\* represented by it.
RowToRecord(row) ==
    [name |-> slugify_path(row.linux_path), zone |-> row.lab,
     mount_path |-> row.linux_path, linux_path |-> row.linux_path]

\* new_paths: the mount paths of the rows of a table.
TablePathsOf(table) == {table[i].linux_path : i \in 1..Len(table)}

\* Mutant: defunct paths are deleted however many they are.
DeletionAllowed_noguard(paths_to_delete, max_paths_to_delete) == paths_to_delete # {}

\* The deletion guard: there is something to delete and it is not more than
\* max_paths_to_delete.
DeletionAllowed(paths_to_delete, max_paths_to_delete) ==
    paths_to_delete # {} /\ Cardinality(paths_to_delete) <= max_paths_to_delete

RECURSIVE UpsertRows(_, _)
\* The loop of update_file_share_paths: for each table row, overwrite the
\* stored record with that mount_path or add a new one (the session
\* autoflushes, so a row added earlier in the loop is found by the query).
UpsertRows(rows, table) ==
    IF table = <<>> THEN rows
    ELSE LET rec == RowToRecord(Head(table))
             existing == {r \in rows : r.mount_path = rec.mount_path}
         IN  UpsertRows((rows \ existing) \cup {rec}, Tail(table))

\* Mutant: the name column has no unique index.
NameUnique_noindex(rows) == TRUE

\* The unique index on FileSharePathDB.name: a flush with two records of the
\* same name raises IntegrityError.
NameUnique(rows) == \A r1, r2 \in rows : r1.name = r2.name => r1 = r2

\* update_file_share_paths(session, table, table_last_updated,
\* max_paths_to_delete) run at time t on the committed rows. An optional
\* value is <<>> for None and <<v>> for v; last_refresh.source_last_updated
\* is not nullable. ok = FALSE when the call raises: nothing is committed.
UpdateFileSharePaths(rows, refresh, table, table_last_updated, max_paths_to_delete, t) ==
    LET existing_paths == {r.mount_path : r \in rows}
        new_paths == {table[i].linux_path : i \in 1..Len(table)}
        upserted == UpsertRows(rows, table)
        paths_to_delete == existing_paths \ new_paths
        kept == IF DeletionAllowed(paths_to_delete, max_paths_to_delete)
                THEN {r \in upserted : r.linux_path \notin paths_to_delete}
                ELSE upserted
    IN  IF ~NameUnique(upserted) \/ table_last_updated = <<>>
        THEN [ok |-> FALSE, rows |-> rows, refresh |-> refresh]
        ELSE [ok |-> TRUE, rows |-> kept,
              refresh |-> [source_last_updated |-> table_last_updated,
                           db_last_updated |-> t]]

\* ------------------------------------------------------------------------
\* The /files dispatcher (app.py)
\* ------------------------------------------------------------------------

\* An S3-style response document.
Response(code, status, msg, resource) ==
    [code |-> code, status |-> status, msg |-> msg, resource |-> resource]

\* x2s3.get_read_access_acl()
get_read_access_acl == Response("ACL", 200, "read access", <<>>)

\* x2s3.get_nosuchbucket_response(name)
get_nosuchbucket_response(name) ==
    Response("NoSuchBucket", 404, "The specified bucket does not exist", name)

\* x2s3.get_error_response(status, code, message, resource)
get_error_response(status, code, msg, resource) == Response(code, status, msg, resource)

\* What the server answers when an exception leaves a handler.
UnhandledException == Response("UnhandledException", 500, "Internal Server Error", <<>>)

\* The task was cancelled: no response is sent.
Cancelled == Response("Cancelled", 0, "cancelled", <<>>)

\* db.get_proxied_path_by_sharing_key: <<row>> or <<>> for None.
get_proxied_path_by_sharing_key(sharing_key) ==
    IF sharing_key \in DOMAIN proxied_paths THEN <<proxied_paths[sharing_key]>> ELSE <<>>

\* {fsp.name: fsp.mount_path for fsp in db.get_all_paths(session)}
NamesToMountPaths(rows) ==
    [n \in {r.name : r \in rows} |-> (CHOOSE r \in rows : r.name = n).mount_path]

\* _get_fsp_names_to_mount_paths under @cache: the first result that did not
\* raise is returned forever. With settings.file_share_mounts set (a list
\* of str) the comprehension reads fsp.name of a str and raises.
_get_fsp_names_to_mount_paths ==
    IF fsp_cache.set THEN [raised |-> FALSE, map |-> fsp_cache.map, cache |-> fsp_cache]
    ELSE IF settings.file_share_mounts # <<>>
         THEN [raised |-> TRUE, map |-> <<>>, cache |-> fsp_cache]
         ELSE LET m == NamesToMountPaths(file_share_paths)
              IN  [raised |-> FALSE, map |-> m, cache |-> [set |-> TRUE, map |-> m]]

\* Mutant: the sharing names are compared by their length only.
SharingNameMatches_length(stored, supplied) == Len(stored) = Len(supplied)

\* proxied_path.sharing_name != sharing_name, negated: exact comparison.
SharingNameMatches(stored, supplied) == stored = supplied

\* Mutant: the error names the sharing key instead of the sharing name.
UnknownKeyResponse_key(sharing_key, sharing_name) == get_nosuchbucket_response(sharing_key)

\* The answer to a sharing key that is not in the registry.
UnknownKeyResponse(sharing_key, sharing_name) == get_nosuchbucket_response(sharing_name)

\* The proxy context chosen from the settings.
MakeProxyContext(username) ==
    IF settings.use_access_flags THEN UserContextInit(username, proc) ELSE NoOpContext

\* _get_file_proxy_client: kind "response" (an error Response), "client"
\* (FileProxyClient rooted at path, with ctx) or "raise". trace lists the
\* steps taken; cache is the memo afterwards.
_get_file_proxy_client(sharing_key, sharing_name) ==
    LET found == get_proxied_path_by_sharing_key(sharing_key)
        Result(kind, resp, ctx, path, mount, trace, cache) ==
            [kind |-> kind, resp |-> resp, ctx |-> ctx, path |-> path,
             mount |-> mount, trace |-> trace, cache |-> cache]
    IN
    IF found = <<>>
    THEN Result("response", UnknownKeyResponse(sharing_key, sharing_name), NoOpContext,
                <<>>, <<>>, <<"lookup:fail">>, fsp_cache)
    ELSE
      LET proxied_path == found[1] IN
      IF ~SharingNameMatches(proxied_path.sharing_name, sharing_name)
      THEN Result("response",
                  get_error_response(400, "InvalidArgument", "Sharing name mismatch", sharing_name),
                  NoOpContext, <<>>, <<>>, <<"lookup:ok", "name:fail">>, fsp_cache)
      ELSE
        LET proxy_context == MakeProxyContext(proxied_path.username)
            m == _get_fsp_names_to_mount_paths
        IN
        IF m.raised
        THEN Result("raise", UnhandledException, proxy_context, <<>>, <<>>,
                    <<"lookup:ok", "name:ok", "mount:raise">>, m.cache)
        ELSE IF proxied_path.fsp_name \notin DOMAIN m.map
        THEN Result("response",
                    get_error_response(400, "InvalidArgument", "File share path not found", sharing_name),
                    proxy_context, <<>>, <<>>, <<"lookup:ok", "name:ok", "mount:fail">>, m.cache)
        ELSE Result("client", UnhandledException, proxy_context,
                    JoinPath(m.map[proxied_path.fsp_name], proxied_path.path),
                    m.map[proxied_path.fsp_name],
                    <<"lookup:ok", "name:ok", "mount:ok">>, m.cache)

\* The synchronous part of a handler ended with a response (or an exception
\* leaving the handler): nothing was entered.
Responded(resp, trace, cache) ==
    [done |-> TRUE, resp |-> resp, trace |-> trace, proc |-> proc, cache |-> cache,
     ctx |-> NoOpContext, path |-> <<>>, mount |-> <<>>, op |-> "", pre |-> proc]

\* `with ctx: return await client.<op>(...)` up to the await: __enter__ runs
\* and the client call starts; when __enter__ raises, the exception leaves
\* the with statement and raised is what the handler makes of it.
EnterBlock(res, op, raised) ==
    LET e == CtxEnter(res.ctx, proc) IN
    IF e.ok
    THEN [done |-> FALSE, resp |-> raised, trace |-> res.trace \o <<"enter:ok", "fs">>,
          proc |-> e.proc, cache |-> res.cache, ctx |-> res.ctx, path |-> res.path,
          mount |-> res.mount, op |-> op, pre |-> proc]
    ELSE [done |-> TRUE, resp |-> raised, trace |-> res.trace \o <<"enter:raise">>,
          proc |-> e.proc, cache |-> res.cache, ctx |-> res.ctx, path |-> <<>>,
          mount |-> <<>>, op |-> "", pre |-> proc]

\* `if list_type:` is false for an absent parameter and for 0.
Truthy(list_type) == list_type # <<>> /\ list_type[1] # 0

\* Mutant: the dispatcher does not return the error Response of the
\* resolution and goes on to the with statement.
target_dispatcher_noreturn(rq) ==
    IF rq.acl THEN Responded(get_read_access_acl, <<>>, fsp_cache)
    ELSE
      LET res == _get_file_proxy_client(rq.key, rq.name) IN
      IF res.kind = "raise" THEN Responded(UnhandledException, res.trace, res.cache)
      ELSE IF Truthy(rq.list_type)
           THEN IF rq.list_type[1] = 2
                THEN EnterBlock(res, "list", UnhandledException)
                ELSE Responded(get_error_response(400, "InvalidArgument",
                                                  "Invalid list type", rq.path),
                               res.trace, res.cache)
           ELSE EnterBlock(res, "get", UnhandledException)

\* Mutant: the acl parameter is looked at after the resolution.
target_dispatcher_acllate(rq) ==
    LET res == _get_file_proxy_client(rq.key, rq.name) IN
    IF res.kind = "raise" THEN Responded(UnhandledException, res.trace, res.cache)
    ELSE IF res.kind = "response" THEN Responded(res.resp, res.trace, res.cache)
    ELSE IF rq.acl THEN Responded(get_read_access_acl, res.trace, res.cache)
    ELSE IF Truthy(rq.list_type)
         THEN IF rq.list_type[1] = 2
              THEN EnterBlock(res, "list", UnhandledException)
              ELSE Responded(get_error_response(400, "InvalidArgument",
                                                "Invalid list type", rq.path),
                             res.trace, res.cache)
         ELSE EnterBlock(res, "get", UnhandledException)

\* target_dispatcher up to its await.
target_dispatcher(rq) ==
    IF rq.acl THEN Responded(get_read_access_acl, <<>>, fsp_cache)
    ELSE
      LET res == _get_file_proxy_client(rq.key, rq.name) IN
      IF res.kind = "raise" THEN Responded(UnhandledException, res.trace, res.cache)
      ELSE IF res.kind = "response" THEN Responded(res.resp, res.trace, res.cache)
      ELSE IF Truthy(rq.list_type)
           THEN IF rq.list_type[1] = 2
                THEN EnterBlock(res, "list", UnhandledException)
                ELSE Responded(get_error_response(400, "InvalidArgument",
                                                  "Invalid list type", rq.path),
                               res.trace, res.cache)
           ELSE EnterBlock(res, "get", UnhandledException)

\* The response of head_object's except clause.
HeadError(rq) == get_error_response(500, "InternalError", "Error requesting HEAD", rq.path)

\* Mutant: head_object without its try/except.
head_object_notry(rq) ==
    LET res == _get_file_proxy_client(rq.key, rq.name) IN
    IF res.kind = "raise" THEN Responded(UnhandledException, res.trace, res.cache)
    ELSE IF res.kind = "response" THEN Responded(res.resp, res.trace, res.cache)
    ELSE EnterBlock(res, "head", UnhandledException)

\* head_object up to its await.
head_object(rq) ==
    LET res == _get_file_proxy_client(rq.key, rq.name) IN
    IF res.kind = "raise" THEN Responded(HeadError(rq), res.trace, res.cache)
    ELSE IF res.kind = "response" THEN Responded(res.resp, res.trace, res.cache)
    ELSE EnterBlock(res, "head", HeadError(rq))

\* The handler of a request.
Handle(rq) == IF rq.method = "HEAD" THEN head_object(rq) ELSE target_dispatcher(rq)

\* The ways the awaited client call can end: a result, an error document of
\* the client (missing file, ...), an exception, or cancellation of the task.
Outcomes == {"ok", "fserror", "raise", "cancel"}

\* Mutant: __exit__ runs only when the block is left normally (no with
\* statement, the release written after the call).
LeaveBlock_noexit(slot, outcome) ==
    IF outcome \in {"raise", "cancel"}
    THEN [resp |-> IF slot.req.method = "HEAD" THEN HeadError(slot.req)
                   ELSE IF outcome = "cancel" THEN Cancelled ELSE UnhandledException,
          proc |-> proc, trace |-> slot.trace]
    ELSE LET x == CtxExit(slot.ctx, proc)
         IN  [resp |-> IF x.ok THEN Response("OK", 200, slot.op, slot.req.path)
                       ELSE UnhandledException,
              proc |-> x.proc,
              trace |-> slot.trace \o <<IF x.ok THEN "exit:ok" ELSE "exit:raise">>]

\* The rest of a handler after its await: the with statement runs __exit__
\* on every way out of the block, then the handler returns or the exception
\* travels on (head_object's bare except catches it, cancellation included).
LeaveBlock(slot, outcome) ==
    LET x == CtxExit(slot.ctx, proc)
        body == IF outcome = "ok" THEN Response("OK", 200, slot.op, slot.req.path)
                ELSE IF outcome = "fserror" THEN Response("NoSuchKey", 404, slot.op, slot.req.path)
                ELSE IF outcome = "cancel" THEN Cancelled
                ELSE UnhandledException
        failed == outcome \in {"raise", "cancel"} \/ ~x.ok
        resp == IF ~failed THEN body
                ELSE IF slot.req.method = "HEAD" THEN HeadError(slot.req)
                ELSE IF x.ok THEN body ELSE UnhandledException
    IN  [resp |-> resp, proc |-> x.proc,
         trace |-> slot.trace \o <<IF x.ok THEN "exit:ok" ELSE "exit:raise">>]

\* ------------------------------------------------------------------------
\* Inputs of the /files model
\* ------------------------------------------------------------------------

\* The callers of _cache_wiki_paths that can be in flight.
Syncers == {"s1", "s2"}

IdleSyncer == [pc |-> "idle", force |-> FALSE, stale |-> FALSE, seen |-> <<>>,
               result |-> "", answer |-> ""]

\* No update_file_share_paths call has run yet.
NoPass == [valid |-> FALSE, before |-> {}, table |-> <<>>, ts |-> <<>>,
           max |-> 0, ok |-> FALSE]

\* No update_file_share_paths transaction is open and none has run.
NoSession == [pc |-> "idle", ran |-> FALSE, committed |-> FALSE,
              before_rows |-> {}, before_refresh |-> {},
              rows |-> {}, refresh |-> {}, existing_paths |-> {}, rest |-> <<>>,
              table |-> <<>>, ts |-> <<>>]

\* No reader has looked at the store.
NoObserved == [valid |-> FALSE, rows |-> {}, refresh |-> {}, session |-> NoSession]

\* No UserContext exists.
NoContext == [pc |-> "none", username |-> "", _uid |-> 0, _gid |-> 0,
              ok |-> TRUE, fault |-> "none", calls |-> <<>>, pre |-> [ruid |-> 0, rgid |-> 0, euid |-> 0,
                                                    egid |-> 0, groups |-> {0}]]

\* No operation on the registry has run.
NoRegOp == [valid |-> FALSE, op |-> "", username |-> "", key |-> <<>>,
            fsp_name |-> <<>>, status |-> 0, detail |-> "", before |-> <<>>]

\* The users and keys of the preference store.
PrefUsers == {"u1", "u2"}
PrefKeys == {"p1", "p2"}

\* A target database without tables.
EmptyTarget == [tables |-> {}, version |-> <<>>, data |-> "none"]

\* The migration script is not running.
NoMigration ==
    [pc |-> "none", auto_yes |-> FALSE, sqlite_ok |-> FALSE, postgresql_ok |-> FALSE,
     alembic_cfg |-> FALSE, prompted |-> FALSE, response |-> <<>>, confirmed |-> FALSE,
     initial |-> EmptyTarget]

\* The parts of the model that are at rest in a specification about others.
SideAtRest ==
    /\ session = NoSession
    /\ observed = NoObserved
    /\ uctx = NoContext
    /\ reg_last = NoRegOp
    /\ user_preferences = {}
    /\ pref_log =
          [written |-> [pair \in PrefUsers \X PrefKeys |-> <<>>],
           ever |-> [pair \in PrefUsers \X PrefKeys |-> FALSE],
           last |-> [valid |-> FALSE, op |-> "", username |-> "", key |-> "", status |-> 0,
                     body |-> <<>>, existed |-> FALSE]]
    /\ postgresql = EmptyTarget
    /\ migration = NoMigration

\* The /files handlers that can be in flight in the one event loop.
Requests == {"r1", "r2"}

Keys == {<<"k", "1">>, <<"k", "2">>}

\* The mount of the file share "a".
MountA == <<"/", "a">>

\* Share-relative paths: "d/f" and "../F".
SharePaths == {<<"d", "/", "f">>, <<".", ".", "/", "F">>}

\* Sharing names of the URL: "f" and "F".
SharingNames == {<<"f">>, <<"F">>}

\* Requested sub-paths: "", "g" and "../../../x".
SubPaths == {<<>>, <<"g">>, <<".", ".", "/", ".", ".", "/", ".", ".", "/", "x">>}

\* list-type: absent, 0, 2 or 3.
ListTypes == {<<>>, <<0>>, <<2>>, <<3>>}

RequestInputs ==
    [method : {"GET"}, key : Keys, name : SharingNames, path : SubPaths,
     acl : BOOLEAN, list_type : ListTypes]
    \cup
    [method : {"HEAD"}, key : Keys, name : SharingNames, path : SubPaths,
     acl : BOOLEAN, list_type : {<<>>}]

NoRequest == [method |-> "", key |-> <<>>, name |-> <<>>, path |-> <<>>,
              acl |-> FALSE, list_type |-> <<>>]

\* Rows create_proxied_path stores: the sharing name is the basename of the
\* path, the file share is "a".
ShareRows ==
    {[username |-> u, sharing_name |-> Basename(sp),
      fsp_name |-> slugify_path(MountA), path |-> sp] : u \in Usernames, sp \in SharePaths}

IdleSlot == [pc |-> "idle", req |-> NoRequest, ctx |-> NoOpContext, path |-> <<>>,
             mount |-> <<>>, op |-> "", trace |-> <<>>, pre |-> RootProc]

NoLast == [valid |-> FALSE, req |-> NoRequest, resp |-> Cancelled, trace |-> <<>>,
           pre |-> RootProc, post |-> RootProc, path |-> <<>>, mount |-> <<>>, op |-> ""]

\* The sync side at rest.
SyncAtRest ==
    /\ now = 0
    /\ wiki = [table |-> <<>>, ts |-> <<0>>, version |-> 0]
    /\ syncers = [s \in Syncers |-> IdleSyncer]
    /\ sync_log = <<>>
    /\ last_pass = NoPass
    /\ SideAtRest

\* Registries of earlier runs: key k1 is a share of alice, key k2 is unused
\* or a share of bob or of ghost.
Registries ==
    {[k \in K |-> IF k = <<"k", "1">> THEN r1 ELSE r2] :
        K \in {{<<"k", "1">>}, Keys},
        r1 \in {r \in ShareRows : r.username = "alice"},
        r2 \in {r \in ShareRows : r.username # "alice" /\ r.path = <<"d", "/", "f">>}}

\* The file_share_paths and last_refresh tables after a sync of table t at
\* time 0.
StoreAfter(t) ==
    LET u == UpdateFileSharePaths({}, {}, t, <<0>>, MaxPathsToDelete, 0)
    IN  file_share_paths = u.rows /\ last_refresh = {u.refresh}

\* A process start: the database holds the shares and file share paths of
\* earlier runs, nothing is cached, no request is in flight.
InitFiles ==
    /\ settings \in [use_access_flags : BOOLEAN, file_share_mounts : {<<>>, <<MountA>>}]
    /\ proxied_paths \in Registries
    /\ \E t \in {<<>>, <<[lab |-> "z1", linux_path |-> MountA]>>} : StoreAfter(t)
    /\ fsp_cache = [set |-> FALSE, map |-> <<>>]
    /\ proc = RootProc
    /\ requests = [r \in Requests |-> IdleSlot]
    /\ last = NoLast
    /\ SyncAtRest

\* A request arrives and its handler runs up to its first await.
StartRequest(r, inputs) ==
    /\ requests[r].pc = "idle"
    /\ \E rq \in inputs :
        LET h == Handle(rq) IN
        /\ proc' = h.proc
        /\ fsp_cache' = h.cache
        /\ IF h.done
           THEN /\ requests' = requests
                /\ last' = [valid |-> TRUE, req |-> rq, resp |-> h.resp, trace |-> h.trace,
                            pre |-> proc, post |-> h.proc, path |-> <<>>, mount |-> <<>>,
                            op |-> ""]
           ELSE /\ requests' = [requests EXCEPT ![r] =
                        [pc |-> "inblock", req |-> rq, ctx |-> h.ctx, path |-> h.path,
                         mount |-> h.mount, op |-> h.op, trace |-> h.trace, pre |-> h.pre]]
                /\ last' = NoLast
    /\ UNCHANGED <<settings, proxied_paths, file_share_paths, last_refresh,
                   now, wiki, syncers, sync_log, last_pass>>
    /\ UNCHANGED side_vars

\* The awaited client call of a suspended handler ends and the handler runs
\* to its end.
FinishRequest(r) ==
    /\ requests[r].pc = "inblock"
    /\ \E outcome \in Outcomes :
        LET f == LeaveBlock(requests[r], outcome) IN
        /\ proc' = f.proc
        /\ last' = [valid |-> TRUE, req |-> requests[r].req, resp |-> f.resp,
                    trace |-> f.trace, pre |-> requests[r].pre, post |-> f.proc,
                    path |-> requests[r].path, mount |-> requests[r].mount,
                    op |-> requests[r].op]
    /\ requests' = [requests EXCEPT ![r] = IdleSlot]
    /\ UNCHANGED <<settings, proxied_paths, file_share_paths, last_refresh, fsp_cache,
                   now, wiki, syncers, sync_log, last_pass>>
    /\ UNCHANGED side_vars

\* One handler at a time, every request shape.
NextFiles == StartRequest("r1", RequestInputs) \/ FinishRequest("r1")

SpecFiles == InitFiles /\ [][NextFiles]_vars

\* Requests of the concurrent model: object reads and HEADs of a share root.
ConcurrentInputs ==
    {rq \in RequestInputs : rq.path = <<>> /\ ~rq.acl /\ rq.list_type = <<>>}

\* The service with access flags on and the file share "a" in the store.
InitConcurrent ==
    /\ settings = [use_access_flags |-> TRUE, file_share_mounts |-> <<>>]
    /\ proxied_paths \in Registries
    /\ StoreAfter(<<[lab |-> "z1", linux_path |-> MountA]>>)
    /\ fsp_cache = [set |-> FALSE, map |-> <<>>]
    /\ proc = RootProc
    /\ requests = [r \in Requests |-> IdleSlot]
    /\ last = NoLast
    /\ SyncAtRest

\* Handlers interleave at their awaits.
NextConcurrent ==
    \E r \in Requests : StartRequest(r, ConcurrentInputs) \/ FinishRequest(r)

SpecConcurrent == InitConcurrent /\ [][NextConcurrent]_vars

\* ------------------------------------------------------------------------
\* Tables handed to the synchronizer
\* ------------------------------------------------------------------------

\* Mount paths "/a", "/b", "/c", "/d" and "-a", whose slug is that of "/a".
PathA == <<"/", "a">>
PathB == <<"/", "b">>
PathC == <<"/", "c">>
PathD == <<"/", "d">>
PathA2 == <<"-", "a">>

TableRow(lab, path) == [lab |-> lab, linux_path |-> path]

\* The rows tables are made of, in their order in a table.
RowPool ==
    <<TableRow("z1", PathA), TableRow("z2", PathA), TableRow("z1", PathB),
      TableRow("z1", PathC), TableRow("z1", PathD), TableRow("z1", PathA2)>>

\* The rows of the external table in the model of _cache_wiki_paths.
WikiRowPool ==
    <<TableRow("z1", PathA), TableRow("z2", PathA), TableRow("z1", PathB),
      TableRow("z1", PathA2)>>

\* Index of a row in a pool.
PoolIndex(pool, row) == CHOOSE i \in 1..Len(pool) : pool[i] = row

\* Tables of at most n rows of the pool: rows of different mount paths come
\* in pool order, two rows of the same mount path in either order.
TablesOf(pool, n) ==
    LET rows == {pool[i] : i \in 1..Len(pool)}
        Ordered(t) ==
            \A i \in 1..Len(t) - 1 :
                \/ PoolIndex(pool, t[i]) < PoolIndex(pool, t[i + 1])
                \/ /\ t[i].linux_path = t[i + 1].linux_path
                   /\ t[i] # t[i + 1]
                   /\ \A k \in 1..Len(t) : k \notin {i, i + 1} => t[k] \notin {t[i], t[i + 1]}
    IN  {t \in UNION {[1..k -> rows] : k \in 0..n} : Ordered(t)}

Tables == TablesOf(RowPool, MaxRows)
WikiTables == TablesOf(WikiRowPool, MaxWikiRows)

\* table_last_updated of a pass: None, or a time.
SourceTimes == {<<>>, <<1>>, <<2>>}

\* ------------------------------------------------------------------------
\* update_file_share_paths called on its own (as tests/test_database.py does)
\* ------------------------------------------------------------------------

\* Mutant: the new LastRefreshDB row is added without deleting the old ones.
RefreshRows_nodelete(refresh, row) == refresh \cup {row}

\* session.query(LastRefreshDB).delete() followed by session.add(...): the
\* rows of the table after a pass that commits.
RefreshRows(refresh, row) ==
    LET deleted == refresh IN (refresh \ deleted) \cup {row}

\* The /files side at rest.
FilesAtRest ==
    /\ settings = [use_access_flags |-> FALSE, file_share_mounts |-> <<>>]
    /\ proxied_paths = <<>>
    /\ fsp_cache = [set |-> FALSE, map |-> <<>>]
    /\ proc = RootProc
    /\ requests = [r \in Requests |-> IdleSlot]
    /\ last = NoLast
    /\ SideAtRest

\* A new, empty database.
InitDb ==
    /\ file_share_paths = {}
    /\ last_refresh = {}
    /\ now = 0
    /\ wiki = [table |-> <<>>, ts |-> <<0>>, version |-> 0]
    /\ syncers = [s \in Syncers |-> IdleSyncer]
    /\ sync_log = <<>>
    /\ last_pass = NoPass
    /\ FilesAtRest

\* One call of update_file_share_paths with the default max_paths_to_delete.
UpdatePass ==
    \E table \in Tables, ts \in SourceTimes :
        LET u == UpdateFileSharePaths(file_share_paths, last_refresh, table, ts,
                                      MaxPathsToDelete, now)
        IN  /\ file_share_paths' = u.rows
            /\ last_refresh' = IF u.ok THEN RefreshRows(last_refresh, u.refresh)
                                ELSE last_refresh
            /\ last_pass' = [valid |-> TRUE, before |-> file_share_paths, table |-> table,
                             ts |-> ts, max |-> MaxPathsToDelete, ok |-> u.ok]
            /\ UNCHANGED <<settings, proxied_paths, fsp_cache, proc, requests, last,
                           now, wiki, syncers, sync_log>>
    /\ UNCHANGED side_vars

NextDb == UpdatePass

SpecDb == InitDb /\ [][NextDb]_vars

\* ------------------------------------------------------------------------
\* _cache_wiki_paths (app.py)
\* ------------------------------------------------------------------------

\* Bound of the model: ticks of the clock in one day.
TicksPerDay == 2

\* timedelta.days
Days(delta) == delta \div TicksPerDay

\* db.get_last_refresh: session.query(LastRefreshDB).first(), <<>> for None.
get_last_refresh(table) == IF table = {} THEN <<>> ELSE <<CHOOSE r \in table : TRUE>>

\* Mutant: the store is stale only after more than a day.
NeedsRefresh_late(seen, force_refresh, t) ==
    seen = <<>> \/ Days(t - seen[1].db_last_updated) > 1 \/ force_refresh

\* not last_refresh or (now - last_refresh.db_last_updated).days >= 1 or force_refresh
NeedsRefresh(seen, force_refresh, t) ==
    seen = <<>> \/ Days(t - seen[1].db_last_updated) >= 1 \/ force_refresh

\* Mutant: the exception of a failed fetch is not caught.
ReadAnswer_uncaught(result) ==
    IF result \in {"failed", "update_raised"} THEN "error" ELSE "paths"

\* What the reading request gets: the stored paths, also after a fetch that
\* failed (the exception is logged and swallowed). After an update that
\* raised, the session is unusable and db.get_all_paths raises.
ReadAnswer(result) == IF result = "update_raised" THEN "error" ELSE "paths"

\* Mutant: the fetched table is applied whatever its timestamp.
TableChanged_always(seen, table_last_updated) == TRUE

\* not last_refresh or table_last_updated != last_refresh.source_last_updated
TableChanged(seen, table_last_updated) ==
    seen = <<>> \/ table_last_updated # seen[1].source_last_updated

\* A run recorded in sync_log; the log keeps the last two.
Logged(log, run) == IF Len(log) = 2 THEN <<log[2], run>> ELSE Append(log, run)

\* _cache_wiki_paths up to the call of get_wiki_table: the last refresh is
\* read and the need for a refresh decided.
BeginRead(s) ==
    /\ syncers[s].pc = "idle"
    /\ \E force_refresh \in BOOLEAN :
        LET seen == get_last_refresh(last_refresh) IN
        syncers' = [syncers EXCEPT ![s] =
            IF NeedsRefresh(seen, force_refresh, now)
            THEN [pc |-> "fetching", force |-> force_refresh,
                  stale |-> NeedsRefresh(seen, FALSE, now), seen |-> seen,
                  result |-> "", answer |-> ""]
            ELSE [pc |-> "idle", force |-> force_refresh, stale |-> FALSE, seen |-> <<>>,
                  result |-> "cached", answer |-> ReadAnswer("cached")]]
    /\ UNCHANGED <<settings, proxied_paths, file_share_paths, last_refresh, fsp_cache,
                   proc, requests, last, now, wiki, sync_log, last_pass>>
    /\ UNCHANGED side_vars

\* get_wiki_table returns or raises, and _cache_wiki_paths runs to its end:
\* the table is applied when its timestamp differs from the one read at the
\* start; any exception is logged and swallowed.
FinishFetch(s) ==
    /\ syncers[s].pc = "fetching"
    /\ \E fetched \in BOOLEAN :
        LET seen == syncers[s].seen
            apply == fetched /\ TableChanged(seen, wiki.ts)
            u == UpdateFileSharePaths(file_share_paths, last_refresh, wiki.table, wiki.ts,
                                      MaxPathsToDelete, now)
            result == IF ~fetched THEN "failed"
                      ELSE IF ~apply THEN "unchanged"
                      ELSE IF u.ok THEN "updated" ELSE "update_raised"
            rows == IF apply THEN u.rows ELSE file_share_paths
            refresh == IF apply /\ u.ok THEN {u.refresh} ELSE last_refresh
        IN  /\ file_share_paths' = rows
            /\ last_refresh' = refresh
            /\ syncers' = [syncers EXCEPT ![s] =
                   [pc |-> "idle", force |-> syncers[s].force,
                    stale |-> syncers[s].stale, seen |-> <<>>,
                    result |-> result, answer |-> ReadAnswer(result)]]
            /\ sync_log' = Logged(sync_log,
                   [version |-> wiki.version, result |-> result,
                    changed |-> rows # file_share_paths \/ refresh # last_refresh])
    /\ UNCHANGED <<settings, proxied_paths, fsp_cache, proc, requests, last, now, wiki,
                   last_pass>>
    /\ UNCHANGED side_vars

\* The external table is edited: its last-modified time becomes the time of
\* the edit.
WikiEdit ==
    /\ wiki.version < MaxEdits
    /\ wiki.ts[1] < now
    /\ \E t \in WikiTables \ {wiki.table} :
          wiki' = [table |-> t, ts |-> <<now>>, version |-> wiki.version + 1]
    /\ UNCHANGED <<settings, proxied_paths, file_share_paths, last_refresh, fsp_cache,
                   proc, requests, last, now, syncers, sync_log, last_pass>>
    /\ UNCHANGED side_vars

\* Time passes.
Tick ==
    /\ now < MaxTime
    /\ now' = now + 1
    /\ UNCHANGED <<settings, proxied_paths, file_share_paths, last_refresh, fsp_cache,
                   proc, requests, last, wiki, syncers, sync_log, last_pass>>
    /\ UNCHANGED side_vars

\* A new, empty database and some external table.
InitSync ==
    /\ file_share_paths = {}
    /\ last_refresh = {}
    /\ now = 0
    /\ \E t \in WikiTables : wiki = [table |-> t, ts |-> <<0>>, version |-> 0]
    /\ syncers = [s \in Syncers |-> IdleSyncer]
    /\ sync_log = <<>>
    /\ last_pass = NoPass
    /\ FilesAtRest

\* Reads of the mapping one after the other.
NextSync == BeginRead("s1") \/ FinishFetch("s1") \/ WikiEdit \/ Tick

SpecSync == InitSync /\ [][NextSync]_vars

\* The external table of the model with overlapping reads: it is not edited.
InitOverlap ==
    /\ file_share_paths = {}
    /\ last_refresh = {}
    /\ now = 0
    /\ \E t \in WikiTables : wiki = [table |-> t, ts |-> <<0>>, version |-> 0]
    /\ syncers = [s \in Syncers |-> IdleSyncer]
    /\ sync_log = <<>>
    /\ last_pass = NoPass
    /\ FilesAtRest

\* Reads of the mapping from two workers (or a read and a scheduled run).
NextOverlap == (\E s \in Syncers : BeginRead(s) \/ FinishFetch(s)) \/ Tick

SpecOverlap == InitOverlap /\ [][NextOverlap]_vars

\* ------------------------------------------------------------------------
\* The transaction of update_file_share_paths, statement by statement, and a
\* reader with a session of its own
\* ------------------------------------------------------------------------

\* Mutant: the session commits after every statement (autocommit).
SessionCommits_autocommit(statement) == TRUE

\* The statements of update_file_share_paths that make the work of the
\* session visible to other sessions: session.commit() alone.
SessionCommits(statement) == statement = "commit"

\* What other sessions see after a statement of the transaction.
Publish(statement, next) ==
    IF SessionCommits(statement)
    THEN file_share_paths' = next.rows /\ last_refresh' = next.refresh
    ELSE UNCHANGED <<file_share_paths, last_refresh>>

\* What a transaction leaves alone.
TxnFrame ==
    UNCHANGED <<settings, proxied_paths, fsp_cache, proc, requests, last, now, wiki,
                syncers, sync_log, last_pass, observed, uctx, reg_last, user_preferences, pref_log, postgresql, migration>>

\* The tables of the passes a reader runs along with: rows to add, to
\* change and to drop, and two mount paths with one slug name.
TxnTables ==
    {<<>>,
     <<TableRow("z1", PathA), TableRow("z1", PathB)>>,
     <<TableRow("z2", PathA)>>,
     <<TableRow("z1", PathB), TableRow("z1", PathA2)>>,
     <<TableRow("z1", PathA), TableRow("z1", PathA2)>>}

\* The call starts: the stored mount paths are read.
TxnBegin ==
    /\ session.pc = "idle"
    /\ \E table \in TxnTables, ts \in SourceTimes :
          session' = [pc |-> "upsert", ran |-> TRUE, committed |-> FALSE,
                      before_rows |-> file_share_paths, before_refresh |-> last_refresh,
                      rows |-> file_share_paths, refresh |-> last_refresh,
                      existing_paths |-> {r.mount_path : r \in file_share_paths},
                      rest |-> table, table |-> table, ts |-> ts]
    /\ UNCHANGED <<file_share_paths, last_refresh>>
    /\ TxnFrame

\* The exception of a failed flush or commit leaves the call: nothing of the
\* transaction is kept.
RolledBack(ses) ==
    [ses EXCEPT !.pc = "idle", !.committed = FALSE, !.rows = ses.before_rows,
                !.refresh = ses.before_refresh, !.rest = <<>>]

\* One turn of the loop: the row is updated or added in the session; the
\* flush raises when two records have one name.
TxnUpsert ==
    /\ session.pc = "upsert"
    /\ session.rest # <<>>
    /\ LET rows == UpsertRows(session.rows, <<Head(session.rest)>>)
           next == [session EXCEPT !.rows = rows, !.rest = Tail(session.rest)]
       IN  IF NameUnique(rows)
           THEN session' = next /\ Publish("upsert", next)
           ELSE session' = RolledBack(session)
                /\ UNCHANGED <<file_share_paths, last_refresh>>
    /\ TxnFrame

\* After the loop: the defunct paths are deleted if the guard allows it.
TxnDelete ==
    /\ session.pc = "upsert"
    /\ session.rest = <<>>
    /\ LET paths_to_delete == session.existing_paths \ TablePathsOf(session.table)
           rows == IF DeletionAllowed(paths_to_delete, MaxPathsToDelete)
                   THEN {r \in session.rows : r.linux_path \notin paths_to_delete}
                   ELSE session.rows
           next == [session EXCEPT !.pc = "refresh", !.rows = rows]
       IN  session' = next /\ Publish("delete", next)
    /\ TxnFrame

\* The last refresh is replaced.
TxnRefresh ==
    /\ session.pc = "refresh"
    /\ LET next == [session EXCEPT
                       !.pc = "commit",
                       !.refresh = {[source_last_updated |-> session.ts,
                                     db_last_updated |-> now]}]
       IN  session' = next /\ Publish("refresh", next)
    /\ TxnFrame

\* session.commit(): it raises for a refresh without source_last_updated.
TxnCommit ==
    /\ session.pc = "commit"
    /\ IF session.ts = <<>>
       THEN session' = RolledBack(session)
            /\ UNCHANGED <<file_share_paths, last_refresh>>
       ELSE LET next == [session EXCEPT !.pc = "idle", !.committed = TRUE]
            IN  session' = next /\ Publish("commit", next)
    /\ TxnFrame

\* Another session reads the tables.
TxnRead ==
    /\ observed' = [valid |-> TRUE, rows |-> file_share_paths, refresh |-> last_refresh,
                    session |-> session]
    /\ UNCHANGED <<settings, proxied_paths, file_share_paths, last_refresh, fsp_cache,
                   proc, requests, last, now, wiki, syncers, sync_log, last_pass,
                   session, uctx, reg_last, user_preferences, pref_log, postgresql, migration>>

NextTxn == TxnBegin \/ TxnUpsert \/ TxnDelete \/ TxnRefresh \/ TxnCommit \/ TxnRead

SpecTxn == InitDb /\ [][NextTxn]_vars

\* ------------------------------------------------------------------------
\* UserContext used on its own: `with UserContext(u): ...` of
\* usercontext.main()
\* ------------------------------------------------------------------------

\* Credentials the program is started with: root, one of the users, or a
\* service account in the primary group of alice or in the group the users
\* share.
StartProcs ==
    {RootProc} \cup
    {[ruid |-> Passwd[u].uid, rgid |-> Passwd[u].gid, euid |-> Passwd[u].uid,
      egid |-> Passwd[u].gid, groups |-> Passwd[u].gids] : u \in KnownUsers} \cup
    {[ruid |-> 500, rgid |-> g, euid |-> 500, egid |-> g, groups |-> {g}] : g \in {101, 200}}

\* What the context steps leave alone.
CtxFrame ==
    UNCHANGED <<settings, proxied_paths, file_share_paths, last_refresh, fsp_cache,
                requests, last, now, wiki, syncers, sync_log, last_pass,
                session, observed, reg_last, user_preferences, pref_log, postgresql, migration>>

\* UserContext(u) is constructed and entered; the block runs if __enter__
\* returned.
CtxOpen ==
    /\ uctx.pc # "entered"
    /\ \E u \in Usernames, fault \in Faults :
        LET ctx == UserContextInit(u, proc)
            e == __enter__(ctx, proc, fault)
        IN  /\ proc' = e.proc
            /\ uctx' = [pc |-> IF e.ok THEN "entered" ELSE "failed", username |-> u,
                        _uid |-> ctx._uid, _gid |-> ctx._gid, ok |-> e.ok,
                        fault |-> fault, calls |-> e.calls, pre |-> proc]
    /\ CtxFrame

\* The block ends, by returning or by raising, and __exit__ runs; it returns
\* False, so an exception of the block goes on.
CtxClose ==
    /\ uctx.pc = "entered"
    /\ \E outcome \in {"ok", "raise"} :
        LET x == CtxExit([kind |-> "AccessFlags", username |-> uctx.username,
                          _uid |-> uctx._uid, _gid |-> uctx._gid], proc)
        IN  /\ proc' = x.proc
            /\ uctx' = [uctx EXCEPT !.pc = "exited", !.ok = x.ok /\ outcome = "ok"]
    /\ CtxFrame

InitContext ==
    /\ proc \in StartProcs
    /\ settings = [use_access_flags |-> TRUE, file_share_mounts |-> <<>>]
    /\ proxied_paths = <<>>
    /\ file_share_paths = {}
    /\ last_refresh = {}
    /\ fsp_cache = [set |-> FALSE, map |-> <<>>]
    /\ requests = [r \in Requests |-> IdleSlot]
    /\ last = NoLast
    /\ SyncAtRest

NextContext == CtxOpen \/ CtxClose

SpecContext == InitContext /\ [][NextContext]_vars

\* ------------------------------------------------------------------------
\* The proxied-path registry: the handlers of app.py over the registry
\* functions of the database module
\* ------------------------------------------------------------------------

\* File share names a caller may give: "a", which is in the store, and "zz".
FspNames == {<<"a">>, <<"z", "z">>}

\* db.create_proxied_path: raises ValueError (ok = FALSE) for a file share
\* name that is not in the store, else stores the row under a new key.
db_create_proxied_path(reg, username, sharing_name, fsp_name, path, key) ==
    IF fsp_name \notin {f.name : f \in file_share_paths}
    THEN [ok |-> FALSE, reg |-> reg]
    ELSE [ok |-> TRUE,
          reg |-> [k \in DOMAIN reg \cup {key} |->
                      IF k = key
                      THEN [username |-> username, sharing_name |-> sharing_name,
                            fsp_name |-> fsp_name, path |-> path]
                      ELSE reg[k]]]

\* db.update_proxied_path: raises ValueError (ok = FALSE) when username has
\* no row with that key, else sets the fields that are given.
db_update_proxied_path(reg, username, sharing_key, new_path, new_sharing_name, new_fsp_name) ==
    IF sharing_key \notin DOMAIN reg \/ reg[sharing_key].username # username
    THEN [ok |-> FALSE, reg |-> reg]
    ELSE LET old == reg[sharing_key]
             new == [username |-> old.username,
                     sharing_name |-> IF new_sharing_name = <<>> THEN old.sharing_name
                                      ELSE new_sharing_name[1],
                     fsp_name |-> IF new_fsp_name = <<>> THEN old.fsp_name
                                  ELSE new_fsp_name[1],
                     path |-> IF new_path = <<>> THEN old.path ELSE new_path[1]]
         IN  [ok |-> TRUE, reg |-> [reg EXCEPT ![sharing_key] = new]]

\* db.delete_proxied_path: deletes the row of username with that key and
\* returns the number of rows deleted.
db_delete_proxied_path(reg, username, sharing_key) ==
    IF sharing_key \notin DOMAIN reg \/ reg[sharing_key].username # username
    THEN [deleted |-> 0, reg |-> reg]
    ELSE [deleted |-> 1, reg |-> [k \in DOMAIN reg \ {sharing_key} |-> reg[k]]]

\* Mutant: the ValueError of the database function is not caught.
create_proxied_path_nocatch(username, fsp_name, path, key) ==
    LET sharing_name == Basename(path)
        c == db_create_proxied_path(proxied_paths, username, sharing_name, fsp_name, path, key)
    IN  [status |-> IF c.ok THEN 200 ELSE 500, reg |-> c.reg]

\* create_proxied_path: the sharing name is the basename of the path; a
\* ValueError becomes a 400.
create_proxied_path(username, fsp_name, path, key) ==
    LET sharing_name == Basename(path)
        c == db_create_proxied_path(proxied_paths, username, sharing_name, fsp_name, path, key)
    IN  [status |-> IF c.ok THEN 200 ELSE 400, reg |-> c.reg]

\* update_proxied_path: a ValueError becomes a 400.
update_proxied_path(username, sharing_key, fsp_name, path, sharing_name) ==
    LET u == db_update_proxied_path(proxied_paths, username, sharing_key,
                                    path, sharing_name, fsp_name)
    IN  [status |-> IF u.ok THEN 200 ELSE 400, reg |-> u.reg]

\* Mutant: the count of deleted rows is not looked at.
delete_proxied_path_nocount(username, sharing_key) ==
    LET d == db_delete_proxied_path(proxied_paths, username, sharing_key)
    IN  [status |-> 200, reg |-> d.reg]

\* delete_proxied_path: 404 when nothing was deleted.
delete_proxied_path(username, sharing_key) ==
    LET d == db_delete_proxied_path(proxied_paths, username, sharing_key)
    IN  [status |-> IF d.deleted = 0 THEN 404 ELSE 200, reg |-> d.reg]

\* get_proxied_path: HTTPException(404) with one detail for a key that is
\* not in the registry and another for a key of another user (the braces
\* are literal, the string is not an f-string); the exception handler
\* answers {"error": detail}.
get_proxied_path(username, sharing_key) ==
    LET path == get_proxied_path_by_sharing_key(sharing_key)
    IN  IF path = <<>>
        THEN [status |-> 404, detail |-> "Proxied path not found"]
        ELSE IF path[1].username # username
        THEN [status |-> 404, detail |-> "Proxied path not found for user {username}"]
        ELSE [status |-> 200, detail |-> ""]

\* What the registry handlers leave alone.
RegFrame ==
    UNCHANGED <<settings, file_share_paths, last_refresh, fsp_cache, proc, requests, last,
                now, wiki, syncers, sync_log, last_pass, session, observed, uctx,
                user_preferences, pref_log, postgresql, migration>>

\* The registry after a handler, and the record of the operation.
RegDone(op, username, key, fsp_name, res) ==
    /\ proxied_paths' = res.reg
    /\ reg_last' = [valid |-> TRUE, op |-> op, username |-> username, key |-> key,
                    fsp_name |-> fsp_name, status |-> res.status, detail |-> "",
                    before |-> proxied_paths]

\* POST /proxied-path/{username}: the key is one not in use.
CreateShare ==
    /\ \E username \in Usernames, fsp_name \in FspNames, path \in SharePaths,
          key \in Keys \ DOMAIN proxied_paths :
          RegDone("create", username, key, <<fsp_name>>,
                  create_proxied_path(username, fsp_name, path, key))
    /\ RegFrame

\* PUT /proxied-path/{username}/{sharing_key}
UpdateShare ==
    /\ \E username \in Usernames, key \in Keys,
          fsp_name \in {<<>>} \cup {<<f>> : f \in FspNames},
          path \in {<<>>} \cup {<<sp>> : sp \in SharePaths},
          sharing_name \in {<<>>, <<(<<"F">>)>>} :
          RegDone("update", username, key, fsp_name,
                  update_proxied_path(username, key, fsp_name, path, sharing_name))
    /\ RegFrame

\* DELETE /proxied-path/{username}/{sharing_key}
DeleteShare ==
    /\ \E username \in Usernames, key \in Keys :
          RegDone("delete", username, key, <<>>, delete_proxied_path(username, key))
    /\ RegFrame

\* GET /proxied-path/{username}/{sharing_key}
GetShare ==
    /\ \E username \in Usernames, key \in Keys :
          LET g == get_proxied_path(username, key) IN
          /\ proxied_paths' = proxied_paths
          /\ reg_last' = [valid |-> TRUE, op |-> "get", username |-> username, key |-> key,
                          fsp_name |-> <<>>, status |-> g.status, detail |-> g.detail,
                          before |-> proxied_paths]
    /\ RegFrame

\* An empty registry; the store holds the file share "a".
InitRegistry ==
    /\ settings = [use_access_flags |-> FALSE, file_share_mounts |-> <<>>]
    /\ proxied_paths = <<>>
    /\ StoreAfter(<<[lab |-> "z1", linux_path |-> MountA]>>)
    /\ fsp_cache = [set |-> FALSE, map |-> <<>>]
    /\ proc = RootProc
    /\ requests = [r \in Requests |-> IdleSlot]
    /\ last = NoLast
    /\ SyncAtRest

NextRegistry == CreateShare \/ UpdateShare \/ DeleteShare \/ GetShare

SpecRegistry == InitRegistry /\ [][NextRegistry]_vars

\* ------------------------------------------------------------------------
\* The preference store (database.py) and its endpoints (app.py)
\* ------------------------------------------------------------------------

\* session.query(UserPreferenceDB).filter_by(username=..., key=...)
PrefRows(table, username, key) == {r \in table : r.username = username /\ r.key = key}

\* get_user_preference: <<value>>, or <<>> for None.
get_user_preference(table, username, key) ==
    LET found == PrefRows(table, username, key)
    IN  IF found = {} THEN <<>> ELSE <<(CHOOSE r \in found : TRUE).value>>

\* Mutant: an existing preference is left as it is.
set_user_preference_keepold(table, username, key, value) ==
    LET found == PrefRows(table, username, key)
    IN  IF found # {} THEN table
        ELSE table \cup {[username |-> username, key |-> key, value |-> value]}

\* set_user_preference: the table after the commit.
set_user_preference(table, username, key, value) ==
    LET found == PrefRows(table, username, key)
    IN  IF found # {}
        THEN LET pref == CHOOSE r \in found : TRUE
             IN  (table \ {pref}) \cup {[pref EXCEPT !.value = value]}
        ELSE table \cup {[username |-> username, key |-> key, value |-> value]}

\* delete_user_preference: the table after the commit and the returned bool.
delete_user_preference(table, username, key) ==
    LET found == PrefRows(table, username, key)
    IN  [table |-> table \ found, deleted |-> Cardinality(found) > 0]

\* GET /preference/{username}/{key}
get_preference(username, key) ==
    LET pref == get_user_preference(user_preferences, username, key)
    IN  IF pref = <<>> THEN [status |-> 404, body |-> <<>>]
        ELSE [status |-> 200, body |-> pref]

\* DELETE /preference/{username}/{key}
delete_preference(username, key) ==
    LET d == delete_user_preference(user_preferences, username, key)
    IN  [table |-> d.table, status |-> IF ~d.deleted THEN 404 ELSE 200]

PrefFrame ==
    UNCHANGED <<settings, proxied_paths, file_share_paths, last_refresh, fsp_cache, proc,
                requests, last, now, wiki, syncers, sync_log, last_pass,
                session, observed, uctx, reg_last, postgresql, migration>>

\* The record of a call.
PrefCall(op, username, key, status, body) ==
    [valid |-> TRUE, op |-> op, username |-> username, key |-> key, status |-> status,
     body |-> body, existed |-> pref_log.written[<<username, key>>] # <<>>]

\* PUT /preference/{username}/{key}
SetPreference ==
    /\ \E username \in PrefUsers, key \in PrefKeys, value \in {"{}", "v1", "v2"} :
          /\ user_preferences' = set_user_preference(user_preferences, username, key, value)
          /\ pref_log' = [written |-> [pref_log.written EXCEPT ![<<username, key>>] = <<value>>],
                          ever |-> [pref_log.ever EXCEPT ![<<username, key>>] = TRUE],
                          last |-> PrefCall("set", username, key, 200, <<>>)]
    /\ PrefFrame

GetPreference ==
    /\ \E username \in PrefUsers, key \in PrefKeys :
          LET g == get_preference(username, key) IN
          /\ user_preferences' = user_preferences
          /\ pref_log' = [pref_log EXCEPT
                              !.last = PrefCall("get", username, key, g.status, g.body)]
    /\ PrefFrame

DeletePreference ==
    /\ \E username \in PrefUsers, key \in PrefKeys :
          LET d == delete_preference(username, key) IN
          /\ user_preferences' = d.table
          /\ pref_log' = [written |-> [pref_log.written EXCEPT ![<<username, key>>] = <<>>],
                          ever |-> pref_log.ever,
                          last |-> PrefCall("delete", username, key, d.status, <<>>)]
    /\ PrefFrame

NextPrefs == SetPreference \/ GetPreference \/ DeletePreference

\* A new, empty database; calls one after the other.
SpecPrefs == InitDb /\ [][NextPrefs]_vars

\* ------------------------------------------------------------------------
\* The SQLite-to-PostgreSQL migration script (migrate.py)
\* ------------------------------------------------------------------------

\* The tables of the application.
AppTables == {"file_share_paths", "last_refresh", "user_preferences"}

\* Target databases the script may be pointed at: empty; tables made by
\* Base.metadata.create_all, without Alembic; an alembic_version table
\* without a row; a schema stamped with an Alembic revision.
TargetStates ==
    {EmptyTarget,
     [tables |-> AppTables, version |-> <<>>, data |-> "old"],
     [tables |-> AppTables \cup {"alembic_version"}, version |-> <<>>, data |-> "old"],
     [tables |-> AppTables \cup {"alembic_version"}, version |-> <<"rev1">>, data |-> "old"]}

\* str.lower(), for the letters the user may type.
Lower(str) == [i \in 1..Len(str) |-> IF str[i] = "Y" THEN "y" ELSE str[i]]

\* check_existing_postgresql_schema: the user is asked only when the
\* alembic_version table exists and holds a version; an exception (of the
\* inspection, or of input() without a terminal) is answered False.
check_existing_postgresql_schema(db, auto_yes, response, raises) ==
    IF raises THEN [ret |-> FALSE, prompted |-> FALSE]
    ELSE IF "alembic_version" \in db.tables /\ db.version # <<>>
    THEN IF auto_yes THEN [ret |-> TRUE, prompted |-> FALSE]
         ELSE [ret |-> Lower(response) \in {<<"y">>, <<"y", "e", "s">>},
               prompted |-> TRUE]
    ELSE [ret |-> TRUE, prompted |-> FALSE]

\* clear_postgresql_database: every table is dropped in one transaction; an
\* exception rolls it back.
clear_postgresql_database(db, raises) ==
    IF raises THEN [ret |-> FALSE, db |-> db]
    ELSE [ret |-> TRUE, db |-> EmptyTarget]

\* apply_alembic_migrations followed by verify_schema_creation: the schema
\* is created and stamped, or the upgrade fails.
apply_alembic_migrations(db, raises) ==
    IF raises THEN [ret |-> FALSE, db |-> db]
    ELSE [ret |-> TRUE,
          db |-> [tables |-> AppTables \cup {"alembic_version"}, version |-> <<"head">>,
                  data |-> "none"]]

MigFrame ==
    UNCHANGED <<settings, proxied_paths, file_share_paths, last_refresh, fsp_cache, proc,
                requests, last, now, wiki, syncers, sync_log, last_pass,
                session, observed, uctx, reg_last, user_preferences, pref_log>>

\* The script is started, with or without --yes, against a target database.
MigStart ==
    /\ migration.pc = "none"
    /\ \E db \in TargetStates, yes \in BOOLEAN :
          /\ postgresql' = db
          /\ migration' = [NoMigration EXCEPT !.pc = "validate", !.auto_yes = yes,
                                              !.initial = db]
    /\ MigFrame

\* Step 1: validate_sqlite_connection, then validate_postgresql_connection.
MigValidate ==
    /\ migration.pc = "validate"
    /\ \E sqlite_ok \in BOOLEAN, postgresql_ok \in BOOLEAN :
          migration' = [migration EXCEPT
              !.sqlite_ok = sqlite_ok,
              !.postgresql_ok = sqlite_ok /\ postgresql_ok,
              !.pc = IF sqlite_ok /\ postgresql_ok THEN "alembic" ELSE "exit1"]
    /\ postgresql' = postgresql
    /\ MigFrame

\* Step 2: setup_alembic_config returns a Config or None.
MigAlembic ==
    /\ migration.pc = "alembic"
    /\ \E found \in BOOLEAN :
          migration' = [migration EXCEPT !.alembic_cfg = found,
                                         !.pc = IF found THEN "check" ELSE "exit1"]
    /\ postgresql' = postgresql
    /\ MigFrame

\* Step 3: check_existing_postgresql_schema; False ends the run with
\* status 0. At the prompt the user types nothing, y, Y, yes or n.
MigCheck ==
    /\ migration.pc = "check"
    /\ \E response \in {<<>>, <<"y">>, <<"Y">>, <<"y", "e", "s">>, <<"n">>},
          raises \in BOOLEAN :
          LET c == check_existing_postgresql_schema(postgresql, migration.auto_yes,
                                                    response, raises)
          IN  migration' = [migration EXCEPT
                  !.prompted = c.prompted,
                  !.response = IF c.prompted THEN response ELSE <<>>,
                  !.confirmed = c.ret,
                  !.pc = IF c.ret THEN "clear" ELSE "exit0"]
    /\ postgresql' = postgresql
    /\ MigFrame

\* Step 4: clear_postgresql_database.
MigClear ==
    /\ migration.pc = "clear"
    /\ \E raises \in BOOLEAN :
          LET c == clear_postgresql_database(postgresql, raises)
          IN  /\ postgresql' = c.db
              /\ migration' = [migration EXCEPT !.pc = IF c.ret THEN "apply" ELSE "exit1"]
    /\ MigFrame

\* Step 5: apply_alembic_migrations and the verification of the schema.
MigApply ==
    /\ migration.pc = "apply"
    /\ \E raises \in BOOLEAN :
          LET a == apply_alembic_migrations(postgresql, raises)
          IN  /\ postgresql' = a.db
              /\ migration' = [migration EXCEPT !.pc = IF a.ret THEN "data" ELSE "exit1"]
    /\ MigFrame

\* Steps 6 and 7: perform_data_migration truncates the tables and fills
\* them from the SQLite database, and returns False when a table failed;
\* then post_migration_tasks.
MigData ==
    /\ migration.pc = "data"
    /\ \E failed \in BOOLEAN, post_ok \in BOOLEAN :
          /\ postgresql' = [postgresql EXCEPT
                 !.data = IF failed THEN "partial" ELSE "migrated"]
          /\ migration' = [migration EXCEPT
                 !.pc = IF ~failed /\ post_ok THEN "done" ELSE "exit1"]
    /\ MigFrame

NextMigrate ==
    MigStart \/ MigValidate \/ MigAlembic \/ MigCheck \/ MigClear \/ MigApply \/ MigData

SpecMigrate == InitDb /\ [][NextMigrate]_vars

\* ------------------------------------------------------------------------
\* /files requests served while sync passes change the store
\* ------------------------------------------------------------------------

\* The tables of the passes: empty, the file share at "/a", or the file
\* share of the same name at "-a".
ResolveTables == {<<>>, <<TableRow("z1", PathA)>>, <<TableRow("z1", PathA2)>>}

\* _cache_wiki_paths applies a fetched table: a pass of
\* update_file_share_paths commits between two requests or while one is
\* suspended.
StoreSync ==
    \E table \in ResolveTables :
        LET u == UpdateFileSharePaths(file_share_paths, last_refresh, table, <<now>>,
                                      MaxPathsToDelete, now)
        IN  /\ u.ok
            /\ u.rows # file_share_paths
            /\ file_share_paths' = u.rows
            /\ last_refresh' = {u.refresh}
            /\ last_pass' = [valid |-> TRUE, before |-> file_share_paths, table |-> table,
                             ts |-> <<now>>, max |-> MaxPathsToDelete, ok |-> u.ok]
            /\ UNCHANGED <<settings, proxied_paths, fsp_cache, proc, requests, last,
                           now, wiki, syncers, sync_log>>
    /\ UNCHANGED side_vars

\* A process start in external-source mode (no file_share_mounts setting).
InitResolve ==
    /\ settings \in [use_access_flags : BOOLEAN, file_share_mounts : {<<>>}]
    /\ proxied_paths \in Registries
    /\ \E t \in ResolveTables : StoreAfter(t)
    /\ fsp_cache = [set |-> FALSE, map |-> <<>>]
    /\ proc = RootProc
    /\ requests = [r \in Requests |-> IdleSlot]
    /\ last = NoLast
    /\ SyncAtRest

\* The requests are object reads, listings and HEADs of a share root.
NextResolve ==
    \/ StartRequest("r1", {rq \in RequestInputs : /\ rq.path = <<>>
                                                  /\ ~rq.acl
                                                  /\ rq.list_type \in {<<>>, <<2>>}})
    \/ FinishRequest("r1")
    \/ StoreSync

SpecResolve == InitResolve /\ [][NextResolve]_vars

\* ------------------------------------------------------------------------
\* Properties of the /files dispatcher and the privilege context
\* ------------------------------------------------------------------------

Has(trace, label) == \E i \in 1..Len(trace) : trace[i] = label

\* __enter__ was called.
EnterCalled(trace) == Has(trace, "enter:ok") \/ Has(trace, "enter:raise")

\* The request did not touch the process identity or the filesystem.
Untouched(l) == ~EnterCalled(l.trace) /\ ~Has(l.trace, "fs") /\ l.post = l.pre

\* The answered request named a registered key with another sharing name.
NameMismatch(l) ==
    /\ l.valid
    /\ l.req.key \in DOMAIN proxied_paths
    /\ proxied_paths[l.req.key].sharing_name # l.req.name

IsMismatchError(resp) ==
    resp.status = 400 /\ resp.code = "InvalidArgument" /\ resp.msg = "Sharing name mismatch"

\* C1 as claimed: every /files request with a registered key and a different
\* sharing name is answered 400 InvalidArgument (name mismatch) and neither
\* enters a privilege context nor reaches the filesystem.
C1_Original == NameMismatch(last) => IsMismatchError(last.resp) /\ Untouched(last)

\* C1 amended: the same for every HEAD request and every GET request without
\* an acl query parameter; a GET with acl is answered before the lookup.
C1_NameMismatchRejected ==
    NameMismatch(last) /\ (last.req.method = "HEAD" \/ ~last.req.acl)
        => IsMismatchError(last.resp) /\ Untouched(last)

\* A HEAD for share name "F" on a key whose sharing name is "f" was refused.
C1_Witness ==
    /\ NameMismatch(last)
    /\ last.req.method = "HEAD"
    /\ last.req.name = <<"F">>
    /\ proxied_paths[last.req.key].sharing_name = <<"f">>
    /\ IsMismatchError(last.resp)

\* The answered request named a key that is not in the registry.
UnknownKey(l) == l.valid /\ l.req.key \notin DOMAIN proxied_paths

IsNoSuchBucket(l) ==
    l.resp.code = "NoSuchBucket" /\ l.resp.status = 404 /\ l.resp.resource = l.req.name

\* C2 as claimed: every /files request with an unregistered key is answered
\* NoSuchBucket tagged with the requested sharing name, and enters nothing.
C2_Original == UnknownKey(last) => IsNoSuchBucket(last) /\ Untouched(last)

\* C2 amended: the same for every HEAD request and every GET request without
\* an acl query parameter.
C2_UnknownKeyNoSuchBucket ==
    UnknownKey(last) /\ (last.req.method = "HEAD" \/ ~last.req.acl)
        => IsNoSuchBucket(last) /\ Untouched(last)

\* A GET with a sub-path on an unregistered key was answered NoSuchBucket.
C2_Witness ==
    /\ UnknownKey(last)
    /\ last.req.method = "GET"
    /\ last.req.path # <<>>
    /\ IsNoSuchBucket(last)

\* C3: after the exit of a privilege context whose enter succeeded, the
\* effective uid and gid of the process are what they were before the
\* enter, however the bracketed call ended.
C3_IdentityRestored ==
    last.valid /\ Has(last.trace, "enter:ok")
        => last.post.euid = last.pre.euid /\ last.post.egid = last.pre.egid

\* A GET whose client call raised inside the block of a narrowing context
\* has been answered.
C3_Witness ==
    /\ last.valid
    /\ settings.use_access_flags
    /\ Has(last.trace, "enter:ok")
    /\ Has(last.trace, "exit:ok")
    /\ last.req.method = "GET"
    /\ last.resp.code = "UnhandledException"

\* The identity the service started with.
Unconstrained(p) == p.euid = p.ruid /\ p.egid = p.rgid

\* C4 as claimed: at most one privilege block is open at a time, every
\* enter is called from the unconstrained identity, and no request is
\* handled (not even looked up) while the block of another is open.
C4_BlocksNeverOverlap ==
    /\ Cardinality({r \in Requests : requests[r].pc = "inblock"}) <= 1
    /\ \A r \in Requests : requests[r].pc = "inblock" => Unconstrained(requests[r].pre)
    /\ last.valid /\ EnterCalled(last.trace) => Unconstrained(last.pre)
    /\ last.valid /\ last.trace # <<>> /\ ~Has(last.trace, "fs")
           => \A r \in Requests : requests[r].pc # "inblock"

\* The request can be resolved: its key is registered with that sharing
\* name and its file share is in the store.
Resolvable(rq) ==
    /\ rq.key \in DOMAIN proxied_paths
    /\ proxied_paths[rq.key].sharing_name = rq.name
    /\ settings.file_share_mounts = <<>>
    /\ \E f \in file_share_paths : f.name = proxied_paths[rq.key].fsp_name

\* Enter is the fourth step, after the three resolution steps succeeded.
EnterInOrder(rq, trace) ==
    EnterCalled(trace) =>
        /\ Len(trace) >= 4
        /\ SubSeq(trace, 1, 3) = <<"lookup:ok", "name:ok", "mount:ok">>
        /\ trace[4] \in {"enter:ok", "enter:raise"}
        /\ Resolvable(rq)

\* C5: a privilege context is entered only after key lookup, name check and
\* mount resolution succeeded, in that order; a request that fails one of
\* them is answered with an error and enters nothing.
C5_EnterOnlyAfterResolution ==
    /\ \A r \in Requests :
          requests[r].pc = "inblock" => EnterInOrder(requests[r].req, requests[r].trace)
    /\ last.valid => EnterInOrder(last.req, last.trace)
    /\ last.valid /\ ~last.req.acl /\ ~Resolvable(last.req)
          => Untouched(last) /\ last.resp.status \in {400, 404, 500}

\* A request is suspended inside the block of a narrowing context.
C5_Witness ==
    \E r \in Requests :
        /\ requests[r].pc = "inblock"
        /\ requests[r].ctx.kind = "AccessFlags"
        /\ proc.euid = Passwd[requests[r].ctx.username].uid

\* C6: a request that entered a privilege context has run the exit, as the
\* step after the client call, by the time its handler has ended, and the
\* process is back at its own identity: on success, on a filesystem error,
\* on an exception and on cancellation.
C6_ExitBeforeResponse ==
    last.valid /\ Has(last.trace, "enter:ok")
        => /\ last.trace[Len(last.trace)] = "exit:ok"
           /\ last.trace[Len(last.trace) - 1] = "fs"
           /\ Unconstrained(proc)

\* A cancelled GET of a narrowing context has left its block.
C6_Witness ==
    /\ last.valid
    /\ settings.use_access_flags
    /\ Has(last.trace, "enter:ok")
    /\ last.resp = Cancelled
    /\ last.trace[Len(last.trace)] = "exit:ok"

\* C7 as claimed, for the part the dispatcher composes itself: the root the
\* file client of a resolved request works on (mount path / share path)
\* lies inside the mount of the file share.
C7_PathInsideMount ==
    /\ \A r \in Requests :
          requests[r].pc = "inblock" => Inside(requests[r].mount, requests[r].path)
    /\ last.valid /\ Has(last.trace, "fs") => Inside(last.mount, last.path)

\* ------------------------------------------------------------------------
\* Properties of the synchronizer
\* ------------------------------------------------------------------------

\* The mount paths of a table.
TablePaths(table) == {table[i].linux_path : i \in 1..Len(table)}

\* Stored paths absent from the table of the pass outnumber the maximum.
GuardTripped(lp) ==
    Cardinality({r.mount_path : r \in lp.before} \ TablePaths(lp.table)) > lp.max

\* No row stored before the pass is gone.
NothingDeleted(lp) ==
    \A r \in lp.before : \E r2 \in file_share_paths : r2.mount_path = r.mount_path

\* Every row of the table is stored; the stored record carries the values of
\* the last table row of its mount path.
AllUpserted(lp) ==
    \A i \in 1..Len(lp.table) :
        \E r \in file_share_paths :
            /\ r.mount_path = lp.table[i].linux_path
            /\ (\A k \in i + 1..Len(lp.table) : lp.table[k].linux_path # r.mount_path)
                   => r = RowToRecord(lp.table[i])

\* C8 as claimed: in any pass whose deletion set exceeds max_paths_to_delete
\* no stored row is deleted and every row of the table is inserted or
\* updated.
C8_Original ==
    last_pass.valid /\ GuardTripped(last_pass)
        => NothingDeleted(last_pass) /\ AllUpserted(last_pass)

\* C8 amended: the same for every pass that completes; a pass that raises
\* (two mount paths with one slug name, no table timestamp) stores nothing.
C8_DeletionGuard ==
    last_pass.valid /\ last_pass.ok /\ GuardTripped(last_pass)
        => NothingDeleted(last_pass) /\ AllUpserted(last_pass)

\* A completed pass refused to delete three stored rows and inserted the row
\* of its table.
C8_Witness ==
    /\ last_pass.valid /\ last_pass.ok /\ GuardTripped(last_pass)
    /\ \E i \in 1..Len(last_pass.table) :
          \A r \in last_pass.before : r.mount_path # last_pass.table[i].linux_path
    /\ Cardinality(file_share_paths) > Cardinality(last_pass.before)

\* The last two runs that went to fetch saw the same version of the source.
SameSourceTwice == Len(sync_log) = 2 /\ sync_log[1].version = sync_log[2].version

\* C9 as claimed: of two runs in succession against an unchanged source, the
\* second changes neither the FileSharePath rows nor the RefreshState.
C9_Original == SameSourceTwice => ~sync_log[2].changed

\* C9 amended: the same when the fetch of the first run did not fail.
C9_Idempotent ==
    SameSourceTwice /\ sync_log[1].result # "failed" => ~sync_log[2].changed

\* The first run applied the table, the second found its timestamp unchanged.
C9_Witness ==
    /\ SameSourceTwice
    /\ sync_log[1].result = "updated"
    /\ sync_log[2].result = "unchanged"
    /\ file_share_paths # {}

\* C10 as claimed: of overlapping sync triggers only one fetches the
\* external table; there is never more than one fetch in flight.
C10_SingleFlight == Cardinality({s \in Syncers : syncers[s].pc = "fetching"}) <= 1

\* The pass the reader looked at, as one call.
PassOf(ses) ==
    UpdateFileSharePaths(ses.before_rows, ses.before_refresh, ses.table, ses.ts,
                         MaxPathsToDelete, now)

\* C11: a reader concurrent with a sync pass sees the rows and RefreshState
\* from before the pass or, once the pass has committed, its complete result
\* (all upserts, the permitted deletions, the new RefreshState); never a
\* part of it.
C11_NoPartialSync ==
    observed.valid /\ observed.session.ran =>
        IF observed.session.committed
        THEN /\ PassOf(observed.session).ok
             /\ observed.rows = PassOf(observed.session).rows
             /\ observed.refresh = {PassOf(observed.session).refresh}
        ELSE /\ observed.rows = observed.session.before_rows
             /\ observed.refresh = observed.session.before_refresh

\* A reader looked while the session held upserts and a deletion that were
\* not committed yet.
C11_Witness ==
    /\ observed.valid
    /\ observed.session.pc = "refresh"
    /\ \E r \in observed.rows : r \notin observed.session.rows
    /\ \E r \in observed.session.rows : r \notin observed.rows

\* The run of _cache_wiki_paths on behalf of s1 ends in this step with a
\* failed fetch.
FetchFails == syncers["s1"].pc = "fetching" /\ syncers'["s1"].result = "failed"

\* The read that follows a run with a failed fetch decides in this step.
ReadAfterFailure ==
    /\ syncers["s1"].pc = "idle"
    /\ syncers["s1"].result = "failed"
    /\ syncers'["s1"] # syncers["s1"]

\* C12 as claimed: a failed fetch leaves rows and RefreshState as they were
\* and is not surfaced to the reading request, and the next read of the
\* mapping attempts the fetch again.
C12_Original ==
    [][/\ FetchFails =>
            /\ file_share_paths' = file_share_paths
            /\ last_refresh' = last_refresh
            /\ syncers'["s1"].answer = "paths"
       /\ ReadAfterFailure => syncers'["s1"].pc = "fetching"]_vars

\* C12 amended: the next read attempts the fetch again when the failed
\* attempt was made because the RefreshState was absent or stale, or when
\* the next read is forced too.
C12_FailedFetchRetried ==
    [][/\ FetchFails =>
            /\ file_share_paths' = file_share_paths
            /\ last_refresh' = last_refresh
            /\ syncers'["s1"].answer = "paths"
       /\ ReadAfterFailure /\ (syncers["s1"].stale \/ syncers'["s1"].force)
            => syncers'["s1"].pc = "fetching"]_vars

\* After a failed fetch on a stale store that has rows, an unforced read is
\* fetching again.
C12_Witness ==
    /\ Len(sync_log) >= 1
    /\ sync_log[Len(sync_log)].result = "failed"
    /\ syncers["s1"].pc = "fetching"
    /\ ~syncers["s1"].force
    /\ file_share_paths # {}

\* C13 as claimed, for the dispatcher: when the enter of a request failed,
\* the effective uid and gid of the process are what they were before the
\* enter and the filesystem was not reached.
C13_EnterFailureUnwound ==
    last.valid /\ Has(last.trace, "enter:raise")
        => /\ last.post.euid = last.pre.euid
           /\ last.post.egid = last.pre.egid
           /\ ~Has(last.trace, "fs")

\* The same for a context used on its own, entered from the identity the
\* program was started with.
C13_AloneUnwound ==
    uctx.pc = "failed" => proc.euid = uctx.pre.euid /\ proc.egid = uctx.pre.egid

\* C14: __enter__ changes the effective group id first, the supplementary
\* groups second and the effective user id last; the user id is not changed
\* before both group changes have succeeded.
C14_GroupsBeforeUser ==
    LET c == uctx.calls IN
    /\ Len(c) >= 1 => c[1].name = "setegid"
    /\ Len(c) >= 2 => c[1].ok /\ c[2].name = "setgroups"
    /\ \A i \in 1..Len(c) :
          /\ c[i].name = "seteuid" => i = 3 /\ c[1].ok /\ c[2].ok
          /\ c[i].euid # uctx.pre.euid =>
                i >= 3 /\ c[1].ok /\ c[2].ok /\ c[3].name = "seteuid" /\ c[3].ok

\* A context of bob entered from root: three calls, the user id narrowed by
\* the third.
C14_Witness ==
    /\ uctx.pc = "entered"
    /\ uctx.username = "bob"
    /\ Len(uctx.calls) = 3
    /\ uctx.pre.euid = 0
    /\ proc.euid = 1002 /\ proc.egid = 102 /\ proc.groups = {102, 200}

\* A read of the mapping on behalf of s1 decides in this step.
ReadDecides == syncers["s1"].pc = "idle" /\ syncers'["s1"] # syncers["s1"]

\* No RefreshState, or one at least a day old, or a forced read.
FetchDue ==
    \/ last_refresh = {}
    \/ \E r \in last_refresh : now - r.db_last_updated >= TicksPerDay
    \/ syncers'["s1"].force

\* C15: a read of the mapping goes to fetch the external table if and only
\* if there is no RefreshState, or db_last_updated is at least a day old, or
\* the caller forces it; any other read fetches nothing and changes neither
\* the rows nor the RefreshState.
C15_FetchWhenDue ==
    [][ReadDecides =>
          /\ syncers'["s1"].pc = "fetching" <=> FetchDue
          /\ ~FetchDue =>
                /\ syncers'["s1"].pc = "idle"
                /\ syncers'["s1"].answer = "paths"
                /\ file_share_paths' = file_share_paths
                /\ last_refresh' = last_refresh]_vars

\* An unforced read one tick short of a day after the last refresh was
\* answered from the store.
C15_Witness ==
    /\ syncers["s1"].pc = "idle"
    /\ syncers["s1"].result = "cached"
    /\ ~syncers["s1"].force
    /\ file_share_paths # {}
    /\ \E r \in last_refresh : now - r.db_last_updated = TicksPerDay - 1

\* C16: creating a proxied path for a file share name that is not in the
\* store fails with a 400 and stores no row; the registry is as before.
C16_UnknownFileShareRejected ==
    /\ reg_last.valid
    /\ reg_last.op = "create"
    /\ reg_last.fsp_name[1] \notin {f.name : f \in file_share_paths}
    => reg_last.status = 400 /\ proxied_paths = reg_last.before

\* A create for the file share "zz" was refused while the registry held a
\* share.
C16_Witness ==
    /\ reg_last.valid
    /\ reg_last.op = "create"
    /\ reg_last.fsp_name = <<(<<"z", "z">>)>>
    /\ reg_last.status = 400
    /\ DOMAIN proxied_paths # {}

\* The latest operation was an update or a delete of an existing key in the
\* name of a user who does not own it.
ByNonOwner ==
    /\ reg_last.valid
    /\ reg_last.op \in {"update", "delete"}
    /\ reg_last.key \in DOMAIN reg_last.before
    /\ reg_last.before[reg_last.key].username # reg_last.username

\* C17: an update or a delete addressed as (username, key) by a user other
\* than the owner of the key fails (update: error, delete: nothing deleted,
\* not found) and leaves the row as it was.
C17_OnlyOwnerMutates ==
    ByNonOwner =>
        /\ reg_last.status = IF reg_last.op = "update" THEN 400 ELSE 404
        /\ reg_last.key \in DOMAIN proxied_paths
        /\ proxied_paths[reg_last.key] = reg_last.before[reg_last.key]
        /\ proxied_paths = reg_last.before

\* bob tried to delete a share of alice.
C17_Witness ==
    /\ ByNonOwner
    /\ reg_last.op = "delete"
    /\ reg_last.username = "bob"
    /\ proxied_paths[reg_last.key].username = "alice"

\* The request carries a list-type parameter with a value other than 2.
OtherListType(rq) == rq.list_type # <<>> /\ rq.list_type[1] # 2

\* C18 as claimed: a resolved GET with a list-type other than 2 is answered
\* InvalidArgument, and neither a listing nor an object read is made for it.
C18_ListTypeTwoOnly ==
    /\ \A r \in Requests :
          requests[r].pc = "inblock" => ~OtherListType(requests[r].req)
    /\ last.valid /\ last.req.method = "GET" /\ ~last.req.acl
       /\ Resolvable(last.req) /\ OtherListType(last.req)
          => /\ last.resp.code = "InvalidArgument"
             /\ last.resp.status = 400
             /\ ~Has(last.trace, "fs")

Raised(trace) ==
    Has(trace, "mount:raise") \/ Has(trace, "enter:raise") \/ Has(trace, "exit:raise")

\* C20: no exception leaves the HEAD handler; one raised by the resolution,
\* the enter, the metadata read or the exit is answered with the generic
\* 500 InternalError.
C20_HeadCatchesAll ==
    last.valid /\ last.req.method = "HEAD" =>
        /\ last.resp.code \notin {"UnhandledException", "Cancelled"}
        /\ Raised(last.trace) => last.resp = HeadError(last.req)
        /\ last.resp.status = 500 => last.resp.code = "InternalError"

\* A HEAD whose mount resolution raised was answered 500 InternalError.
C20_Witness ==
    /\ last.valid
    /\ last.req.method = "HEAD"
    /\ Has(last.trace, "mount:raise")
    /\ last.resp.status = 500
    /\ last.resp.code = "InternalError"

\* C21 as claimed: a GET or LIST request in which the privilege context or
\* the filesystem raised (unknown owner, refused identity change, I/O
\* error) is answered with a structured error document; the exception does
\* not leave the handler.
C21_ErrorsStructured ==
    last.valid /\ last.req.method = "GET"
        /\ (Has(last.trace, "enter:raise") \/ Has(last.trace, "fs"))
        => last.resp.code # "UnhandledException"

\* The mount paths of the file share names in the store as it is now.
StoredMounts == NamesToMountPaths(file_share_paths)

\* C22 as claimed: a request is resolved against the store as it is when
\* the request arrives: a request that reaches its block is rooted at the
\* mount path the store has for the share's file share name, and a request
\* is refused for an unknown file share only when the store has no row of
\* that name.
C22_ResolvedAgainstStore ==
    [][requests["r1"].pc = "idle" =>
          /\ requests'["r1"].pc = "inblock" =>
                LET row == proxied_paths[requests'["r1"].req.key] IN
                /\ row.fsp_name \in DOMAIN StoredMounts
                /\ requests'["r1"].mount = StoredMounts[row.fsp_name]
          /\ last'.valid /\ last' # last /\ Has(last'.trace, "mount:fail") =>
                proxied_paths[last'.req.key].fsp_name \notin DOMAIN StoredMounts]_vars

\* C23: the RefreshState table never holds more than one row, and after a
\* pass that succeeded its row carries the table timestamp given to that
\* pass.
C23_OneRefreshRow ==
    /\ Cardinality(last_refresh) <= 1
    /\ last_pass.valid /\ last_pass.ok =>
          \E r \in last_refresh :
              /\ last_refresh = {r}
              /\ r.source_last_updated = last_pass.ts

\* A pass succeeded on a store that earlier passes had filled and stamped
\* before: the table still has one row, with the new
\* timestamp.
C23_Witness ==
    /\ last_pass.valid /\ last_pass.ok
    /\ last_pass.before # {}
    /\ last_pass.ts = <<2>>
    /\ \E r \in last_refresh : last_refresh = {r} /\ r.source_last_updated = <<2>>

\* C24: whatever tables the passes were given, no two stored FileSharePath
\* rows have the same name and no two have the same mount_path.
C24_NamesAndMountsUnique ==
    \A r1, r2 \in file_share_paths :
        r1.name = r2.name \/ r1.mount_path = r2.mount_path => r1 = r2

\* A pass was given a table with two mount paths of the same name while
\* the store had rows.
C24_Witness ==
    /\ last_pass.valid
    /\ file_share_paths # {}
    /\ \E i, j \in 1..Len(last_pass.table) :
          /\ last_pass.table[i].linux_path # last_pass.table[j].linux_path
          /\ slugify_path(last_pass.table[i].linux_path)
                = slugify_path(last_pass.table[j].linux_path)

LastOfPath(table) ==
    {i \in 1..Len(table) :
        \A k \in i + 1..Len(table) : table[k].linux_path # table[i].linux_path}

\* The stored mount paths are those of the table of the pass, each stored
\* once, and every stored row carries the values of its table row.
ExactlyTable(lp) ==
    /\ {r.mount_path : r \in file_share_paths} = TablePaths(lp.table)
    /\ Cardinality(file_share_paths) = Cardinality(TablePaths(lp.table))
    /\ \A r \in file_share_paths :
          \E i \in LastOfPath(lp.table) :
              /\ r.mount_path = lp.table[i].linux_path
              /\ r.linux_path = lp.table[i].linux_path
              /\ r.zone = lp.table[i].lab

C27_GroupsRestored ==
    uctx.pc = "exited" \/ (uctx.pc = "failed" /\ uctx.fault = "seteuid")
        => proc.groups = uctx.pre.groups

\* A run of _cache_wiki_paths made for a stale store ends in this step
\* with the timestamp of the external table found unchanged.
StaleRunFindsUnchanged ==
    /\ syncers["s1"].pc = "fetching"
    /\ syncers["s1"].stale
    /\ syncers'["s1"].result = "unchanged"

\* C28 as claimed: such a run resets the staleness clock: a read without
\* force_refresh that follows it at once goes to no fetch.
C28_ClockReset ==
    [][StaleRunFindsUnchanged =>
          ~NeedsRefresh(get_last_refresh(last_refresh'), FALSE, now')]_vars

\* A sharing key that is never registered.
NoSuchKey == <<"k", "0">>

\* C29 as claimed: a caller asking for a registered key of another user is
\* answered exactly as for a key that does not exist.
C29_ForeignKeyLikeUnknown ==
    /\ reg_last.valid
    /\ reg_last.op = "get"
    /\ reg_last.key \in DOMAIN proxied_paths
    /\ proxied_paths[reg_last.key].username # reg_last.username
    => [status |-> reg_last.status, detail |-> reg_last.detail]
           = get_proxied_path(reg_last.username, NoSuchKey)

\* The run has gone past the existing-schema check.
PastCheck == migration.pc \in {"clear", "apply", "data", "done"}

\* Both connections were validated and the Alembic configuration was found.
ChecksPassed == migration.sqlite_ok /\ migration.postgresql_ok /\ migration.alembic_cfg

\* The user answered yes at the prompt.
AnsweredYes == migration.prompted /\ Lower(migration.response) \in {<<"y">>, <<"y", "e", "s">>}

\* The target database is changed only by a run in which every check passed
\* and confirmation was given; a run that the user or a failed check ended
\* leaves it as it was.
OnlyAfter(confirmation) ==
    /\ postgresql # migration.initial => PastCheck \/ migration.pc = "exit1"
    /\ postgresql # migration.initial => ChecksPassed /\ confirmation
    /\ migration.pc = "exit0" => postgresql = migration.initial

\* C30: the target database is dropped, truncated or filled only after both
\* connections were validated, the Alembic configuration was found, and the
\* user answered yes, --yes was given or the target held no schema;
\* otherwise the run ends with the target as it was.
C30_DestructiveAfterChecks ==
    OnlyAfter(AnsweredYes \/ migration.auto_yes \/ migration.initial.tables = {})

====
